---- MODULE Spec2Model ----
(***************************************************************************)
(* simple_on_shutdown: a guard value (OnShutdownCallback) that owns a      *)
(* boxed zero-argument callback and invokes it in its destructor.          *)
(*                                                                         *)
(* The model is one main thread running a function body made of ordinary   *)
(* statements, nested blocks, guard registrations (on_shutdown!,           *)
(* on_shutdown_move!), direct constructor calls whose result is not bound, *)
(* and the worker thread of the simple_example_move binary, which polls a  *)
(* shared atomic flag.  Spec is this general body; SpecMove is the         *)
(* flag-and-join pattern of simple_example_move and SpecSignal the signal  *)
(* pattern of simple_example_ctrl_c_signal (handler thread, work loop),    *)
(* each with the fairness of its threads.  Scope exit drops the locals of  *)
(* the scope;                                                              *)
(* Drop::drop of a guard is modelled step by step (pre-record, invocation, *)
(* callback body, post-record).  Ordinary statements are all alike to a    *)
(* guard, so the body is kept in a normal form: one ordinary statement     *)
(* runs at the start of the body and after every registration, block       *)
(* entry and block exit.                                                   *)
(***************************************************************************)
EXTENDS Naturals, Sequences, FiniteSets

\* ---------------------------------------------------------------- bounds
MaxGuards == 2
MaxBlocks == 1
MaxSignals == 2

\* ---------------------------------------------------------------- inputs
\* The callback sources the examples hand to the macros (examples/minimal.rs).
Forms == {"expr", "block", "closure", "move_closure", "ident"}

VARIABLES
    guards,     \* every OnShutdownCallback constructed so far, in construction order
    scopes,     \* stack of open lexical scopes: [id, locals], locals in declaration order
    nblocks,    \* nested blocks opened so far (the function body is scope 1)
    pc,         \* main thread: "stmt", "body", "loop", "exit", "temp", "returned", "panicked", "aborted"
    mode,       \* why scopes are being left: "run", "return", "unwind"
    cur,        \* guard whose drop() is executing on the main thread, 0 if none
    log,        \* observable events, in order
    flag,       \* exit_work_loop: Arc<AtomicBool>
    worker,     \* spawned thread: "running", "terminated"
    handle,     \* thread_h is held by: "main", "guard" (moved into the callback), "joined"
    do_work,    \* do_work: Arc<AtomicBool> of simple_example_ctrl_c_signal
    signals,    \* interruption signals delivered to the process so far
    handled,    \* signals the installed handler has been run for
    work_loop   \* work loop of simple_example_ctrl_c_signal: "none", "polling", "exited"

\* The state of the signal-handling example.
sigvars == <<do_work, signals, handled, work_loop>>

vars == <<guards, scopes, nblocks, pc, mode, cur, log, flag, worker, handle,
          do_work, signals, handled, work_loop>>

\* ------------------------------------------------------- macro expansion
\* The wildcard pattern, which binds nothing.
WildcardName == "_"

\* Both macros bind the guard with `let <name> = ...`; a `let` whose pattern is an
\* identifier keeps the value alive to the end of the enclosing scope, the
\* wildcard pattern `_` does not bind it.
HiddenName == "_on_shutdown_callback_1337deadbeeffoobaraffecoffee"

LetBinds(name) == name # "_"

\* The macro wraps its argument as `|| { $cb }` (an expression is first mapped to
\* the block `{ $cb }`).  Invoking the stored closure evaluates that block:
\* evaluating a statement expression or a block executes its code; evaluating a
\* closure expression or an identifier naming a closure only yields the closure
\* value, it does not call it.  So the stored closure either executes the code of
\* the source when it is invoked, or it does not.
EvalRuns(form) == form \in {"expr", "block"}

\* A binding that replaces the earlier locals.
BindReplacing(locals, g) == <<g>>

\* A later `let` of the same name shadows the earlier binding; the earlier value
\* stays a local of the scope.
Bind(locals, g) == Append(locals, g)

\* Every binding owned by the function body.
OwningScopeOutermost(stack) == 1

\* The scope that owns a new binding: the innermost open one.
OwningScope(stack) == Len(stack)

\* ------------------------------------------------------------ destruction
\* A local that can be dropped again after its drop.
LiveAlways(g) == guards[g].st \in {"pending", "dropped"}

\* A local is dropped once: after its drop it is gone.
Live(g) == guards[g].st = "pending"

Pending(locals) == SelectSeq(locals, Live)

\* Locals dropped in order of declaration.
NextToDropFirst(locals) == locals[1]

\* Locals of a scope are dropped in reverse order of declaration.
NextToDrop(locals) == locals[Len(locals)]

Top == scopes[Len(scopes)]

ProcessAlive == pc \in {"stmt", "body", "loop", "exit", "temp"}

\* OnShutdownCallback::new: the guard owns the boxed callback.  `via` tells a
\* guard made by a macro from one made by a direct call of new(); `runs` whether
\* invoking the boxed closure executes the user code `code`; `scope` is the scope
\* whose body holds the constructing statement.  `code` is "user" for arbitrary
\* user code, which returns, panics or never returns when it is executed, and
\* "store_join" for the callback of simple_example_move.  A guard that is not
\* bound is a temporary: its drop() starts at the end of the statement.
NewGuard(via, runs, code, bound) ==
    [via |-> via, runs |-> runs, code |-> code, bound |-> bound,
     scope |-> Top.id,
     st |-> IF bound THEN "pending" ELSE "entered",
     calls |-> 0, ran |-> 0]

Emit(events) == log' = log \o events

\* The function body is entered, its first statements done as in
\* simple_example_move: the flag is created false, the worker is spawned and main
\* holds its handle.  (Without a move guard the worker is never told to stop and
\* plays no part.)  As in simple_example_ctrl_c_signal, do_work is created true
\* and the handler is installed; no signal has been delivered.
Init ==
    /\ guards = <<>>
    /\ scopes = << [id |-> 1, locals |-> <<>>] >>
    /\ nblocks = 0
    /\ pc = "stmt"
    /\ mode = "run"
    /\ cur = 0
    /\ log = <<>>
    /\ flag = FALSE
    /\ worker = "running"
    /\ handle = "main"
    /\ do_work = TRUE
    /\ signals = 0
    /\ handled = 0
    /\ work_loop = "none"

\* ------------------------------------------------------------ body steps
\* An ordinary statement of the body (println!, sleep, ...).
Stmt ==
    /\ pc = "stmt"
    /\ pc' = "body"
    /\ Emit(<< <<"stmt", Top.id>> >>)
    /\ UNCHANGED <<guards, scopes, nblocks, mode, cur, flag, worker, handle, sigvars>>

\* `{` : a nested block opens a new scope.
EnterBlock ==
    /\ pc = "body"
    /\ nblocks < MaxBlocks
    /\ nblocks' = nblocks + 1
    /\ scopes' = Append(scopes, [id |-> nblocks + 2, locals |-> <<>>])
    /\ pc' = "stmt"
    /\ UNCHANGED <<guards, mode, cur, log, flag, worker, handle, sigvars>>

\* Construction of a guard by a statement of the body.
Construct(via, runs, code, bound) ==
    /\ pc = "body"
    /\ Len(guards) < MaxGuards
    /\ LET g == Len(guards) + 1
           owner == OwningScope(scopes)
       IN /\ guards' = Append(guards, NewGuard(via, runs, code, bound))
          /\ IF bound
             THEN /\ scopes' = [scopes EXCEPT ![owner].locals = Bind(@, g)]
                  /\ Emit(<< <<"reg", g>> >>)
                  /\ pc' = "stmt"
                  /\ UNCHANGED cur
             ELSE /\ pc' = "temp"
                  /\ cur' = g
                  /\ Emit(<< <<"reg", g>>, <<"pre", g>> >>)
                  /\ UNCHANGED scopes
    /\ UNCHANGED <<nblocks, mode, flag, worker, sigvars>>

\* on_shutdown!(<form>)
on_shutdown(form) ==
    /\ Construct("macro", EvalRuns(form), "user", LetBinds(HiddenName))
    /\ UNCHANGED handle

\* on_shutdown_move!({ exit_work_loop.store(true); thread_h.join().unwrap(); println!(..) })
on_shutdown_move ==
    /\ handle = "main"
    /\ Construct("macro", EvalRuns("block"), "store_join", LetBinds(HiddenName))
    /\ handle' = "guard"

\* OnShutdownCallback::new(Box::new(|| <code>));   as a statement, result not bound.
\* The boxed closure is the user code itself.
new_unbound ==
    /\ Construct("new", TRUE, "user", FALSE)
    /\ UNCHANGED handle

\* `}` : control falls off the end of the innermost open scope.
ScopeEnd ==
    /\ pc = "body"
    /\ pc' = "exit"
    /\ UNCHANGED <<guards, scopes, nblocks, mode, cur, log, flag, worker, handle, sigvars>>

\* A return that ends the function at once, dropping nothing.
EarlyReturnSkipsDrops ==
    /\ pc = "body"
    /\ pc' = "returned"
    /\ mode' = "return"
    /\ UNCHANGED <<guards, scopes, nblocks, cur, log, flag, worker, handle, sigvars>>

\* `return` / `?` : every open scope of the function is left.
EarlyReturn ==
    /\ pc = "body"
    /\ pc' = "exit"
    /\ mode' = "return"
    /\ UNCHANGED <<guards, scopes, nblocks, cur, log, flag, worker, handle, sigvars>>

\* A panic of the body that ends the process at once, without unwinding.
BodyFaultAborts ==
    /\ pc = "body"
    /\ pc' = "aborted"
    /\ mode' = "unwind"
    /\ Emit(<< <<"fault", Top.id>> >>)
    /\ UNCHANGED <<guards, scopes, nblocks, cur, flag, worker, handle, sigvars>>

\* A statement of the body panics: the stack unwinds.
BodyFault ==
    /\ pc = "body"
    /\ pc' = "exit"
    /\ mode' = "unwind"
    /\ Emit(<< <<"fault", Top.id>> >>)
    /\ UNCHANGED <<guards, scopes, nblocks, cur, flag, worker, handle, sigvars>>

\* ------------------------------------------------- Drop for OnShutdownCallback
\* debug!("on shutdown callback:"); let now = Instant::now();
DropBegin(g) ==
    /\ guards' = [guards EXCEPT ![g].st = "entered"]
    /\ cur' = g
    /\ Emit(<< <<"pre", g>> >>)
    /\ UNCHANGED <<scopes, nblocks, pc, mode, flag, worker, handle, sigvars>>

\* The scope being left still has a local to drop.
DropNext ==
    /\ pc = "exit"
    /\ cur = 0
    /\ Pending(Top.locals) # <<>>
    /\ DropBegin(NextToDrop(Pending(Top.locals)))

\* drop() without its call of the callback.
InvokeSkipsCallback ==
    /\ ProcessAlive
    /\ cur # 0
    /\ guards[cur].st = "entered"
    /\ guards' = [guards EXCEPT ![cur].st = "finishing"]
    /\ UNCHANGED <<scopes, nblocks, pc, mode, cur, log, flag, worker, handle, sigvars>>

\* drop() handing the callback to the background and going on at once.
InvokeInBackground ==
    /\ ProcessAlive
    /\ cur # 0
    /\ guards[cur].st = "entered"
    /\ guards' = [guards EXCEPT ![cur].st = "running",
                                ![cur].calls = @ + 1,
                                ![cur].ran = IF guards[cur].runs THEN @ + 1 ELSE @]
    /\ cur' = 0
    /\ pc' = IF pc = "temp" THEN "stmt" ELSE pc
    /\ Emit(<< <<"call", cur>> >>)
    /\ UNCHANGED <<scopes, nblocks, mode, flag, worker, handle, sigvars>>

\* (self.0)();   the call is made on the exiting thread.
Invoke ==
    /\ ProcessAlive
    /\ cur # 0
    /\ guards[cur].st = "entered"
    /\ guards' = [guards EXCEPT ![cur].st = "running",
                                ![cur].calls = @ + 1,
                                ![cur].ran = IF guards[cur].runs THEN @ + 1 ELSE @]
    /\ Emit(<< <<"call", cur>> >>)
    /\ UNCHANGED <<scopes, nblocks, pc, mode, cur, flag, worker, handle, sigvars>>

\* A callback that goes on to the join without storing the flag.
CbJoinWithoutStore ==
    /\ ProcessAlive
    /\ cur # 0
    /\ guards[cur].st = "running"
    /\ guards[cur].runs
    /\ guards[cur].code = "store_join"
    /\ guards' = [guards EXCEPT ![cur].st = "joining"]
    /\ UNCHANGED <<scopes, nblocks, pc, mode, cur, log, flag, worker, handle, sigvars>>

\* exit_work_loop.store(true, Ordering::Relaxed);
CbStore ==
    /\ ProcessAlive
    /\ cur # 0
    /\ guards[cur].st = "running"
    /\ guards[cur].runs
    /\ guards[cur].code = "store_join"
    /\ flag' = TRUE
    /\ guards' = [guards EXCEPT ![cur].st = "joining"]
    /\ UNCHANGED <<scopes, nblocks, pc, mode, cur, log, worker, handle, sigvars>>

\* A join that does not wait for the worker.
CbJoinNoWait ==
    /\ ProcessAlive
    /\ cur # 0
    /\ guards[cur].st = "joining"
    /\ handle' = "joined"
    /\ guards' = [guards EXCEPT ![cur].st = "joined"]
    /\ UNCHANGED <<scopes, nblocks, pc, mode, cur, log, flag, worker, sigvars>>

\* thread_h.join().unwrap();   blocks until the worker has terminated.
CbJoin ==
    /\ ProcessAlive
    /\ cur # 0
    /\ guards[cur].st = "joining"
    /\ worker = "terminated"
    /\ handle' = "joined"
    /\ guards' = [guards EXCEPT ![cur].st = "joined"]
    /\ UNCHANGED <<scopes, nblocks, pc, mode, cur, log, flag, worker, sigvars>>

\* The callback returns to drop().
CallbackReturn ==
    /\ ProcessAlive
    /\ cur # 0
    /\ \/ /\ guards[cur].st = "running"
          /\ ~guards[cur].runs \/ guards[cur].code = "user"
       \/ guards[cur].st = "joined"
    /\ guards' = [guards EXCEPT ![cur].st = "finishing"]
    /\ Emit(<< <<"ret", cur>> >>)
    /\ UNCHANGED <<scopes, nblocks, pc, mode, cur, flag, worker, handle, sigvars>>

\* Every panic of a callback aborting the process.
CallbackPanicAborts ==
    /\ ProcessAlive
    /\ cur # 0
    /\ guards[cur].st = "running"
    /\ guards[cur].runs
    /\ guards[cur].code = "user"
    /\ Emit(<< <<"panic", cur>> >>)
    /\ pc' = "aborted"
    /\ UNCHANGED <<guards, scopes, nblocks, mode, cur, flag, worker, handle, sigvars>>

\* The callback panics.  drop() is left by the panic (its remaining statements do
\* not run); the guard's field is still released.  A panic while the stack is
\* already unwinding aborts the process; otherwise unwinding starts.
CallbackPanic ==
    /\ ProcessAlive
    /\ cur # 0
    /\ guards[cur].st = "running"
    /\ guards[cur].runs
    /\ guards[cur].code = "user"
    /\ Emit(<< <<"panic", cur>> >>)
    /\ IF mode = "unwind"
       THEN /\ pc' = "aborted"
            /\ UNCHANGED <<guards, mode, cur>>
       ELSE /\ pc' = "exit"
            /\ mode' = "unwind"
            /\ cur' = 0
            /\ guards' = [guards EXCEPT ![cur].st = "dropped"]
    /\ UNCHANGED <<scopes, nblocks, flag, worker, handle, sigvars>>

\* The callback never returns (it loops or blocks for ever): drop() stays in the
\* call.
CallbackHang ==
    /\ ProcessAlive
    /\ cur # 0
    /\ guards[cur].st = "running"
    /\ guards[cur].runs
    /\ guards[cur].code = "user"
    /\ guards' = [guards EXCEPT ![cur].st = "hung"]
    /\ UNCHANGED <<scopes, nblocks, pc, mode, cur, log, flag, worker, handle, sigvars>>

\* drop() ending without its second record.
DropEndNoRecord ==
    /\ ProcessAlive
    /\ cur # 0
    /\ guards[cur].st = "finishing"
    /\ guards' = [guards EXCEPT ![cur].st = "dropped"]
    /\ cur' = 0
    /\ pc' = IF pc = "temp" THEN "stmt" ELSE pc
    /\ UNCHANGED <<scopes, nblocks, mode, log, flag, worker, handle, sigvars>>

\* let duration_usecs = now.elapsed().as_micros(); debug!("... finished ...");
\* then the Box is released and the guard is gone.
DropEnd ==
    /\ ProcessAlive
    /\ cur # 0
    /\ guards[cur].st = "finishing"
    /\ guards' = [guards EXCEPT ![cur].st = "dropped"]
    /\ cur' = 0
    /\ pc' = IF pc = "temp" THEN "stmt" ELSE pc
    /\ Emit(<< <<"post", cur>> >>)
    /\ UNCHANGED <<scopes, nblocks, mode, flag, worker, handle, sigvars>>

\* Every local of the scope being left is gone: the scope is closed.  In normal
\* flow the enclosing body resumes; on return or unwind the enclosing scope is
\* left next; leaving the function body ends the function.
ScopePop ==
    /\ pc = "exit"
    /\ cur = 0
    /\ Pending(Top.locals) = <<>>
    /\ scopes' = SubSeq(scopes, 1, Len(scopes) - 1)
    /\ pc' = IF Len(scopes) = 1
             THEN (IF mode = "unwind" THEN "panicked" ELSE "returned")
             ELSE (IF mode = "run" THEN "stmt" ELSE "exit")
    /\ UNCHANGED <<guards, nblocks, mode, cur, log, flag, worker, handle, sigvars>>

\* ---------------------------------------------------------------- worker
\* loop { if exit_work_loop_t.load(Ordering::Relaxed) { break; } }  42
WorkerStep ==
    /\ ProcessAlive
    /\ worker = "running"
    /\ worker' = IF flag THEN "terminated" ELSE "running"
    /\ UNCHANGED <<guards, scopes, nblocks, pc, mode, cur, log, flag, handle, sigvars>>

Next ==
    \/ Stmt
    \/ EnterBlock
    \/ \E form \in Forms : on_shutdown(form)
    \/ on_shutdown_move
    \/ new_unbound
    \/ ScopeEnd
    \/ EarlyReturn
    \/ BodyFault
    \/ DropNext
    \/ Invoke
    \/ CbStore
    \/ CbJoin
    \/ CallbackReturn
    \/ CallbackPanic
    \/ CallbackHang
    \/ DropEnd
    \/ ScopePop
    \/ WorkerStep

Spec == Init /\ [][Next]_vars

\* ------------------------------------------------- simple_example_move
\* The steps of the main thread in the flag-and-join pattern: a body that
\* registers the move guard (and possibly guards whose callbacks return), leaves
\* its scopes by falling off the end or by an early return, and the drops.
MainMove ==
    \/ Stmt
    \/ EnterBlock
    \/ \E form \in Forms : on_shutdown(form)
    \/ on_shutdown_move
    \/ ScopeEnd
    \/ EarlyReturn
    \/ DropNext
    \/ Invoke
    \/ CbStore
    \/ CbJoin
    \/ CallbackReturn
    \/ DropEnd
    \/ ScopePop

NextMove ==
    \/ MainMove
    \/ WorkerStep

\* The main thread and the spawned worker are threads of the operating system:
\* each one that can take a step eventually takes one.
SpecMove ==
    /\ Init
    /\ [][NextMove]_vars
    /\ WF_vars(MainMove)
    /\ WF_vars(WorkerStep)

\* ------------------------------------------ simple_example_ctrl_c_signal
\* The handler is installed (ctrlc::set_handler) when the body starts.  An
\* interruption signal is delivered to the process.
SignalArrives ==
    /\ ProcessAlive
    /\ signals < MaxSignals
    /\ signals' = signals + 1
    /\ UNCHANGED <<guards, scopes, nblocks, pc, mode, cur, log, flag, worker, handle,
                   do_work, handled, work_loop>>

\* The handler, on its own thread:
\*   println!("Received CTRL+C"); do_work_handler.store(false, Ordering::Relaxed);
\* Signals that arrive close together may be served by one run of the handler.
HandlerRun ==
    /\ ProcessAlive
    /\ handled < signals
    /\ \E n \in (handled + 1)..signals : handled' = n
    /\ do_work' = FALSE
    /\ UNCHANGED <<guards, scopes, nblocks, pc, mode, cur, log, flag, worker, handle,
                   signals, work_loop>>

\* loop {
WorkLoopEnter ==
    /\ pc = "body"
    /\ work_loop = "none"
    /\ pc' = "loop"
    /\ work_loop' = "polling"
    /\ UNCHANGED <<guards, scopes, nblocks, mode, cur, log, flag, worker, handle,
                   do_work, signals, handled>>

\* A work loop that is left without looking at the flag.
WorkLoopPollIgnoresFlag ==
    /\ pc = "loop"
    /\ pc' = "body"
    /\ work_loop' = "exited"
    /\ Emit(<< <<"stmt", Top.id>> >>)
    /\ UNCHANGED <<guards, scopes, nblocks, mode, cur, flag, worker, handle,
                   do_work, signals, handled>>

\* if !do_work.load(Ordering::Relaxed) { println!("Exiting work loop"); break; }
WorkLoopPoll ==
    /\ pc = "loop"
    /\ IF do_work
       THEN UNCHANGED <<pc, work_loop, log>>
       ELSE /\ pc' = "body"
            /\ work_loop' = "exited"
            /\ Emit(<< <<"stmt", Top.id>> >>)
    /\ UNCHANGED <<guards, scopes, nblocks, mode, cur, flag, worker, handle,
                   do_work, signals, handled>>

\* on_shutdown!(<form>) ahead of the work loop.
RegisterBeforeLoop(form) ==
    /\ work_loop = "none"
    /\ on_shutdown(form)

\* The end of main follows the work loop.
EndAfterLoop ==
    /\ work_loop = "exited"
    /\ ScopeEnd

\* The steps of the main thread of the example: its body, then the drops of its
\* guards, whose callbacks return.
MainSignal ==
    \/ Stmt
    \/ \E form \in Forms : RegisterBeforeLoop(form)
    \/ WorkLoopEnter
    \/ WorkLoopPoll
    \/ EndAfterLoop
    \/ DropNext
    \/ Invoke
    \/ CallbackReturn
    \/ DropEnd
    \/ ScopePop

NextSignal ==
    \/ MainSignal
    \/ SignalArrives
    \/ HandlerRun

\* The main thread and the handler thread are threads of the operating system:
\* each one that can take a step eventually takes one.
SpecSignal ==
    /\ Init
    /\ [][NextSignal]_vars
    /\ WF_vars(MainSignal)
    /\ WF_vars(HandlerRun)

\* ------------------------------------------------------------ vocabulary
G == 1..Len(guards)

Range(seq) == {seq[i] : i \in 1..Len(seq)}

OpenIds == {scopes[i].id : i \in 1..Len(scopes)}

\* The scope the guard was constructed in has been left and closed.
ScopeClosed(g) == guards[g].scope \notin OpenIds

\* The guard was registered through one of the macros.
MacroGuard(g) == guards[g].via = "macro"

\* The body of scope sid is still executing: the scope is open and is not the
\* one being left.
BodyExecuting(sid) ==
    /\ sid \in OpenIds
    /\ \/ pc \in {"stmt", "body", "loop", "temp"}
       \/ pc = "exit" /\ mode = "run" /\ Top.id # sid

\* The guard of simple_example_move: its callback stores the flag and joins.
MoveGuard(g) == guards[g].code = "store_join"

\* The callback of the guard has been called and has neither returned nor faulted.
InCallback(g) == guards[g].st \in {"running", "joining", "joined", "hung"}

\* Log positions of the faults: panics of callbacks and of body statements.
Faults == {i \in 1..Len(log) : log[i][1] \in {"panic", "fault"}}

\* Positions of an event in the log.
At(ev) == {i \in 1..Len(log) : log[i] = ev}

\* ------------------------------------------------------------------- C1
\* C1: the callback of a guard is invoked at most once in every reachable state
\* (by the guard's counter and by the log); once the scope a bound guard lives in
\* has been left in normal flow it has been invoked exactly once; and a guard that
\* has fired is gone (dropped), so it is never selected for a drop again.
C1_AtMostOnceAndExactlyOnce ==
    \A g \in G :
        /\ guards[g].calls <= 1
        /\ Cardinality(At(<<"call", g>>)) = guards[g].calls
        /\ (guards[g].bound /\ ScopeClosed(g) /\ mode # "unwind")
              => (guards[g].calls = 1 /\ guards[g].st = "dropped")
        /\ guards[g].st = "dropped" => guards[g].calls = 1

C1_Witness ==
    /\ pc = "returned"
    /\ mode = "run"
    /\ \E g \in G : guards[g].bound /\ guards[g].calls = 1 /\ guards[g].st = "dropped"

\* ------------------------------------------------------------------- C2
\* C2: a guard registered through a macro is not invoked at construction nor
\* while the body of its scope is executing: as long as that body runs the guard
\* is pending with no invocation, and every ordinary statement of the scope is
\* logged before the callback is called.
C2_NeverEarly ==
    \A g \in G : MacroGuard(g) =>
        /\ BodyExecuting(guards[g].scope)
              => (guards[g].st = "pending" /\ guards[g].calls = 0)
        /\ \A i \in At(<<"call", g>>) : \A j \in At(<<"stmt", guards[g].scope>>) : j < i

\* start, <register>, middle, then the callback: the scenario of simple_example.
C2_Witness ==
    /\ Len(log) >= 6
    /\ SubSeq(log, 1, 6) = << <<"stmt", 1>>, <<"reg", 1>>, <<"stmt", 1>>,
                              <<"pre", 1>>, <<"call", 1>>, <<"ret", 1>> >>
    /\ MacroGuard(1)
    /\ guards[1].ran = 1

\* ------------------------------------------------------------------- C3
\* C3: of two guards bound in the same scope, the later one has finished (its
\* drop is over) before the drop of the earlier one starts; in the log the
\* callback of the later one has returned or faulted before the earlier one is
\* called.
C3_ReverseOrder ==
    \A g1 \in G, g2 \in G :
        (g1 < g2 /\ guards[g1].bound /\ guards[g2].bound
           /\ guards[g1].scope = guards[g2].scope) =>
        /\ guards[g1].st # "pending" => guards[g2].st = "dropped"
        /\ \A i \in At(<<"call", g1>>) :
              \E j \in At(<<"ret", g2>>) \cup At(<<"panic", g2>>) : j < i

C3_Witness ==
    \E g1 \in G, g2 \in G :
        /\ g1 < g2 /\ guards[g1].bound /\ guards[g2].bound
        /\ guards[g1].scope = guards[g2].scope
        /\ \E i \in At(<<"call", g1>>), j \in At(<<"ret", g2>>) : j < i
        /\ pc = "returned"

\* ------------------------------------------------------------------- C4
\* C4: registering again in a scope keeps every earlier guard of the scope: while
\* the scope is open each guard registered in it through a macro is one of its
\* locals, and is pending while the body runs; once the scope is closed each of
\* them has been invoked exactly once.
C4_MultipleRegistrations ==
    \A g \in G : MacroGuard(g) =>
        /\ guards[g].bound
        /\ IF ScopeClosed(g)
           THEN guards[g].calls = 1
           ELSE /\ \E k \in 1..Len(scopes) :
                      scopes[k].id = guards[g].scope /\ g \in Range(scopes[k].locals)
                /\ BodyExecuting(guards[g].scope) => guards[g].st = "pending"

C4_Witness ==
    /\ pc = "returned"
    /\ \E g1 \in G, g2 \in G :
        /\ g1 < g2 /\ MacroGuard(g1) /\ MacroGuard(g2)
        /\ guards[g1].scope = guards[g2].scope
        /\ guards[g1].calls = 1 /\ guards[g2].calls = 1

\* ------------------------------------------------------------------- C5
\* C5, as claimed: whatever form the callback source has, once the scope of a
\* guard registered through the macro has been left in normal flow, the code of
\* the source has been executed exactly once.
C5_EveryFormRunsOnce ==
    \A g \in G :
        (MacroGuard(g) /\ ScopeClosed(g) /\ mode # "unwind") => guards[g].ran = 1

\* ------------------------------------------------------------------- C6
\* C6: a guard that is not bound is invoked by the statement that constructs it:
\* in the log its registration is directly followed by the pre-record and the
\* call, no later statement precedes its call, and as soon as the main thread is
\* past its drop it has been invoked exactly once and is gone; it is never
\* invoked again, also not when the scope is left.
C6_UnboundFiresImmediately ==
    \A g \in G : ~guards[g].bound =>
        /\ guards[g].calls <= 1
        /\ cur # g => (guards[g].calls = 1 /\ guards[g].st = "dropped")
        /\ pc \in {"stmt", "body", "returned", "panicked"} => guards[g].calls = 1
        /\ \A i \in At(<<"reg", g>>) :
              /\ i + 1 <= Len(log) /\ log[i + 1] = <<"pre", g>>
              /\ i + 2 <= Len(log) => log[i + 2] = <<"call", g>>
        /\ Cardinality(At(<<"call", g>>)) = guards[g].calls

C6_Witness ==
    /\ pc = "returned"
    /\ \E g \in G :
        /\ ~guards[g].bound
        /\ guards[g].calls = 1
        /\ \E i \in At(<<"post", g>>) : i < Len(log) /\ log[i + 1] = <<"stmt", guards[g].scope>>

\* ------------------------------------------------------------------- C7
\* C7: when the function that registered the move guard (flag store, then join of
\* the worker) returns, the flag is true, the worker has terminated and its handle
\* has been joined, whatever the interleaving of main thread and worker.
C7_FlagSetAndJoinedAtReturn ==
    (pc = "returned" /\ \E g \in G : MoveGuard(g)) =>
        (flag /\ worker = "terminated" /\ handle = "joined")

C7_Witness ==
    /\ pc = "returned"
    /\ \E g \in G : MoveGuard(g) /\ guards[g].calls = 1
    /\ flag /\ worker = "terminated" /\ handle = "joined"

\* ------------------------------------------------------------------- C8
\* C8: guards of nested scopes fire innermost first, each at the end of its own
\* scope: a guard whose scope is closed has been dropped; while a scope lies
\* below another open scope its guards are pending; and a statement of an
\* enclosing scope that follows the registration is logged only after the
\* callback of the guard has returned (or faulted).
C8_InnermostFirst ==
    /\ \A g \in G : (guards[g].bound /\ ScopeClosed(g)) => guards[g].st = "dropped"
    /\ \A k \in 1..Len(scopes) : \A g \in Range(scopes[k].locals) :
          k < Len(scopes) => guards[g].st = "pending"
    /\ \A g \in G : \A s \in 1..(guards[g].scope - 1) :
          guards[g].bound =>
             \A i \in At(<<"reg", g>>) : \A j \in At(<<"stmt", s>>) :
                i < j => \E r \in At(<<"ret", g>>) \cup At(<<"panic", g>>) : r < j

C8_Witness ==
    /\ pc = "returned"
    /\ \E g1 \in G, g2 \in G :
        /\ guards[g1].bound /\ guards[g2].bound
        /\ guards[g1].scope = 1 /\ guards[g2].scope = 2
        /\ \E r \in At(<<"post", g2>>), j \in At(<<"stmt", 1>>), c \in At(<<"call", g1>>) :
              r < j /\ j < c

\* ------------------------------------------------------------------- C9
\* C9, as claimed: a fault of a callback is fatal to the process: after the
\* fault no callback is called any more, and the post-record of the faulting
\* guard is not emitted.
C9_FaultIsFatal ==
    \A i \in 1..Len(log) : log[i][1] = "panic" =>
        /\ \A j \in 1..Len(log) : j > i => log[j][1] # "call"
        /\ At(<<"post", log[i][2]>>) = {}

\* C9, amended: the post-record of a faulting guard is never emitted; the process
\* is aborted exactly when a callback faults while the stack is already
\* unwinding, and nothing is logged after that; a first fault unwinds instead,
\* and when the unwind has left the function every bound guard has been
\* invoked once, in reverse order of registration within each scope.
C9_FaultUnwinds ==
    /\ LET n == Cardinality(Faults)
       IN /\ n <= 2
          /\ pc = "aborted" <=> n = 2
          /\ mode = "unwind" <=> n >= 1
    /\ pc = "aborted" => log[Len(log)][1] = "panic"
    /\ mode = "unwind" =>
          /\ \A g \in G : At(<<"panic", g>>) # {} => At(<<"post", g>>) = {}
          /\ pc = "panicked" => \A g \in G : guards[g].bound => guards[g].calls = 1
          /\ \A g1 \in G, g2 \in G :
                (g1 < g2 /\ guards[g1].bound /\ guards[g2].bound
                   /\ guards[g1].scope = guards[g2].scope) =>
                \A i \in At(<<"call", g1>>) : \E j \in At(<<"call", g2>>) : j < i

C9_Witness ==
    /\ pc = "panicked"
    /\ \E g1 \in G, g2 \in G :
          \E i \in At(<<"panic", g2>>), j \in At(<<"call", g1>>), r \in At(<<"ret", g1>>) :
              i < j /\ j < r
    /\ Cardinality(Faults) = 1

\* ------------------------------------------------------------------ C10
\* C10: the callback runs on the exiting thread, inside drop(): while a callback
\* is executing the main thread is in the drop of that guard and the guard's
\* scope is still open; the function has returned only when every callback has
\* returned and every drop has ended; and with a callback that never returns the
\* main thread stays in that drop, so the scope is never closed.
C10_Synchronous ==
    /\ \A g \in G : InCallback(g) =>
          /\ cur = g
          /\ pc \in {"exit", "temp", "aborted"}
          /\ ~ScopeClosed(g)
    /\ pc = "returned" =>
          \A g \in G : /\ guards[g].st = "dropped"
                       /\ At(<<"ret", g>>) # {}
                       /\ At(<<"post", g>>) # {}
    /\ \A g \in G : guards[g].st = "hung" =>
          /\ pc \in {"exit", "temp"}
          /\ At(<<"ret", g>>) = {}
          /\ log[Len(log)] = <<"call", g>>

C10_Witness ==
    \E g \in G :
        /\ guards[g].st = "hung"
        /\ guards[g].bound
        /\ pc = "exit"
        /\ Len(scopes) = 1
        /\ \E h \in G : h < g /\ guards[h].bound /\ guards[h].st = "pending"

\* ------------------------------------------------------------------ C11
\* In the signal-handling pattern the work loop is left only after the handler
\* has stored the flag, and a guard has left the pending state only after the
\* work loop was left.
C11_FiresOnlyAfterLoop ==
    /\ work_loop = "exited" => (~do_work /\ handled >= 1)
    /\ do_work <=> handled = 0
    /\ \A g \in G :
          /\ guards[g].calls <= 1
          /\ guards[g].st # "pending" => work_loop = "exited"
          /\ pc = "returned" => (guards[g].calls = 1 /\ guards[g].st = "dropped")

\* A step that delivers a signal or runs the handler changes nothing of the main
\* thread and of the guards.
C11_SignalStepsLeaveGuards ==
    (signals' # signals \/ handled' # handled) =>
        UNCHANGED <<guards, scopes, pc, mode, cur, log, work_loop>>

\* C11: in the signal-handling pattern a guard never fires as an effect of the
\* signal itself (signal and handler steps leave the guards and the main thread
\* alone, and a guard fires only after the work loop has seen the flag and was
\* left); and, with the main thread and the handler thread scheduled fairly,
\* once a signal has been delivered the work loop is eventually left and main
\* returns with every guard invoked exactly once, whatever the number of signals.
C11_SignalPattern ==
    /\ []C11_FiresOnlyAfterLoop
    /\ [][C11_SignalStepsLeaveGuards]_vars
    /\ (signals > 0) ~> (work_loop = "exited")
    /\ (signals > 0) ~> (pc = "returned" /\ \A g \in G : guards[g].calls = 1)

C11_Witness ==
    /\ pc = "returned"
    /\ signals >= 2
    /\ work_loop = "exited"
    /\ \E g \in G : guards[g].calls = 1 /\ guards[g].ran = 1
    /\ \E i \in At(<<"call", 1>>) : log[i - 2] = <<"stmt", 1>>

\* ------------------------------------------------------------------ C12
\* What drop() of the guard has logged so far, in order.
DropEvents(g) ==
    SelectSeq(log, LAMBDA e : e[2] = g /\ e[1] \in {"pre", "call", "ret", "panic", "post"})

\* The records of a drop whose callback returns.
FiringSequence(g) == << <<"pre", g>>, <<"call", g>>, <<"ret", g>>, <<"post", g>> >>

\* C12: every firing of a guard logs the pre-record, the call of the callback,
\* its return and the post-record, in this order and each once (a firing still
\* under way has logged a prefix of it; a callback that faults ends it in place
\* of the return); the pre-record is directly followed by the call and the
\* return directly by the post-record; and the records do not change the
\* invocation: a guard is invoked exactly when its drop passes from the
\* pre-record to the call, once per drop, and a drop that has ended after a
\* return has logged the whole sequence.
C12_Instrumentation ==
    \A g \in G :
        LET d == DropEvents(g)
        IN /\ \/ d = SubSeq(FiringSequence(g), 1, Len(d))
              \/ d = << <<"pre", g>>, <<"call", g>>, <<"panic", g>> >>
           /\ guards[g].calls = (IF Len(d) >= 2 THEN 1 ELSE 0)
           /\ guards[g].st = "pending" <=> (guards[g].bound /\ d = <<>>)
           /\ (guards[g].st = "dropped" /\ At(<<"panic", g>>) = {}) => d = FiringSequence(g)
           /\ \A i \in At(<<"pre", g>>) : i < Len(log) => log[i + 1] = <<"call", g>>
           /\ \A i \in At(<<"ret", g>>) : i < Len(log) => log[i + 1] = <<"post", g>>

C12_Witness ==
    /\ pc = "returned"
    /\ \E g \in G, h \in G :
          /\ g # h
          /\ guards[g].bound /\ DropEvents(g) = FiringSequence(g)
          /\ ~guards[h].bound /\ DropEvents(h) = FiringSequence(h)

\* ------------------------------------------------------------------ C13
\* C13: a guard also fires when its scope is left by an early return (`?` on a
\* failed step): after the return no statement of the body runs any more, the
\* open scopes are left one after the other, and when the function has returned
\* every guard has been invoked exactly once and is gone (and the code of a
\* block or expression source has been executed exactly once).
C13_FiresOnEarlyReturn ==
    mode = "return" =>
        /\ pc \in {"exit", "returned"}
        /\ \A g \in G :
              /\ guards[g].calls <= 1
              /\ ScopeClosed(g) =>
                    /\ guards[g].calls = 1
                    /\ guards[g].st = "dropped"
                    /\ guards[g].runs => guards[g].ran = 1
        /\ pc = "returned" => \A g \in G : ScopeClosed(g)

\* The function returns early from inside a nested block, with a guard pending
\* in the block and one in the function body.
C13_Witness ==
    /\ pc = "returned"
    /\ mode = "return"
    /\ \E g1 \in G, g2 \in G :
          /\ MacroGuard(g1) /\ guards[g1].scope = 1 /\ guards[g1].ran = 1
          /\ MacroGuard(g2) /\ guards[g2].scope = 2 /\ guards[g2].calls = 1
          /\ \E i \in At(<<"stmt", 2>>) : \A j \in At(<<"stmt", 1>>) : j < i
          /\ \E i \in At(<<"post", g2>>), j \in At(<<"pre", g1>>) : i < j

\* ------------------------------------------------------------------ C14
\* The worker has left its loop only with the flag set; the flag is set only by
\* the callback of the move guard, before it joins; the join has returned only
\* with the worker terminated.
C14_FlagBeforeJoin ==
    /\ worker = "terminated" => flag
    /\ flag <=> \E g \in G :
                   MoveGuard(g) /\ guards[g].st \in {"joining", "joined", "finishing", "dropped"}
    /\ \A g \in G : guards[g].st = "joining" => (flag /\ cur = g /\ MoveGuard(g))
    /\ handle = "joined" <=> \E g \in G : guards[g].st \in {"joined", "finishing", "dropped"}
                                           /\ MoveGuard(g)
    /\ handle = "joined" => worker = "terminated"

\* The flag is written by one step only: the store of the move guard's callback.
C14_OnlyCallbackWritesFlag ==
    flag' # flag =>
        /\ cur # 0
        /\ MoveGuard(cur)
        /\ guards[cur].st = "running"
        /\ guards'[cur].st = "joining"
        /\ flag'

\* C14: in the flag-and-join pattern, with main thread and worker scheduled
\* fairly, the program terminates: the worker cannot leave its loop before the
\* callback of the move guard has set the flag, which nothing else writes; the
\* callback sets the flag before it blocks in the join, so the main thread is
\* never blocked in the join with the flag false; a join that is blocked
\* eventually returns; and once the move guard is registered the function
\* eventually returns, with the worker terminated and joined.
C14_FlagAndJoinTerminates ==
    /\ []C14_FlagBeforeJoin
    /\ [][C14_OnlyCallbackWritesFlag]_vars
    /\ (cur # 0 /\ guards[cur].st = "joining") ~> (handle = "joined")
    /\ (\E g \in G : MoveGuard(g)) ~> (pc = "returned" /\ worker = "terminated"
                                         /\ handle = "joined")
    /\ <>(pc = "returned")

\* The main thread is blocked in the join while the worker has not yet seen the
\* flag.
C14_Witness ==
    /\ cur # 0
    /\ MoveGuard(cur)
    /\ guards[cur].st = "joining"
    /\ flag
    /\ worker = "running"
    /\ pc = "exit"

\* ------------------------------------------------------------------ C15
\* Log positions of a panic of the body.
BodyFaults == {i \in 1..Len(log) : log[i][1] = "fault"}

\* C15: when a statement of the body panics the stack unwinds and the pending
\* guards fire: after the fault no statement of the body runs, the fault alone
\* does not end the process (it is aborted only if a callback panics during the
\* unwind), every guard is invoked at most once, the guards invoked after the
\* fault are invoked in reverse order of registration, and when the unwind has
\* left the function every bound guard has been invoked exactly once and is gone.
C15_FiresOnUnwind ==
    \A f \in BodyFaults :
        /\ mode = "unwind"
        /\ pc \in {"exit", "panicked", "aborted"}
        /\ \A i \in 1..Len(log) : i > f => log[i][1] \notin {"stmt", "reg", "fault"}
        /\ pc = "aborted" => \E g \in G : At(<<"panic", g>>) # {}
        /\ \A g \in G : guards[g].calls <= 1
        /\ \A g1 \in G, g2 \in G :
              g1 < g2 =>
                 \A i \in At(<<"call", g1>>) : \A j \in At(<<"call", g2>>) :
                    i > f => j < i
        /\ pc = "panicked" =>
              \A g \in G : guards[g].bound =>
                 /\ guards[g].calls = 1
                 /\ guards[g].st = "dropped"
                 /\ guards[g].runs => guards[g].ran = 1

\* The body panics inside a nested block with a guard pending in the block and
\* one in the function body; both fire during the unwind, the inner one first.
C15_Witness ==
    /\ pc = "panicked"
    /\ \A g \in G : At(<<"panic", g>>) = {}
    /\ \E f \in BodyFaults, g1 \in G, g2 \in G :
          /\ log[f] = <<"fault", 2>>
          /\ guards[g1].scope = 1 /\ guards[g2].scope = 2
          /\ \E i \in At(<<"call", g2>>), j \in At(<<"call", g1>>) : f < i /\ i < j
          /\ guards[g1].ran = 1 /\ guards[g2].ran = 1

====
